---- MODULE Spec2Model ----
(***************************************************************************)
(* A model of the image colour picker (src/image_color_picker.py): the     *)
(* click-to-sample pipeline, the colour record ledger and the floating     *)
(* screen sampler.                                                         *)
(*                                                                         *)
(* The program computes coordinates, the alpha composite and HSV in        *)
(* Python floats (IEEE-754 binary64) and truncates them with int().  The   *)
(* results of int() depend on the rounding of every intermediate float, so *)
(* the float operations are modelled bit-exactly: a float is a sign, a     *)
(* 53-bit significand and an exponent, and the significand is a natural    *)
(* number held in limbs because it is wider than the integers of the       *)
(* model checker.                                                          *)
(***************************************************************************)
EXTENDS Integers, Sequences, FiniteSets, TLC

(***************************************************************************)
(* Natural numbers of any width: a sequence of limbs base 2^15, the least  *)
(* significant limb first, with no zero limb at the top; <<>> is zero.     *)
(***************************************************************************)
LimbBase == 2 ^ 15

RECURSIVE BTrim(_)
BTrim(x) ==
    IF x = <<>> THEN <<>>
    ELSE IF x[Len(x)] = 0 THEN BTrim(SubSeq(x, 1, Len(x) - 1))
    ELSE x

RECURSIVE BFromInt(_)
BFromInt(n) ==
    IF n = 0 THEN <<>> ELSE <<n % LimbBase>> \o BFromInt(n \div LimbBase)

RECURSIVE BToInt(_)
BToInt(x) ==
    IF x = <<>> THEN 0 ELSE x[1] + LimbBase * BToInt(Tail(x))

RECURSIVE BAddC(_, _, _)
BAddC(x, y, c) ==
    IF x = <<>> /\ y = <<>> THEN (IF c = 0 THEN <<>> ELSE <<c>>)
    ELSE LET a == IF x = <<>> THEN 0 ELSE x[1]
             b == IF y = <<>> THEN 0 ELSE y[1]
             s == a + b + c
             xt == IF x = <<>> THEN <<>> ELSE Tail(x)
             yt == IF y = <<>> THEN <<>> ELSE Tail(y)
         IN  <<s % LimbBase>> \o BAddC(xt, yt, s \div LimbBase)

BAdd(x, y) == BAddC(x, y, 0)

\* x - y - c for x >= y + c, before the top zero limbs are removed
RECURSIVE BSubC(_, _, _)
BSubC(x, y, c) ==
    IF x = <<>> THEN <<>>
    ELSE LET b == IF y = <<>> THEN 0 ELSE y[1]
             d == x[1] - b - c
             yt == IF y = <<>> THEN <<>> ELSE Tail(y)
         IN  IF d < 0 THEN <<d + LimbBase>> \o BSubC(Tail(x), yt, 1)
             ELSE <<d>> \o BSubC(Tail(x), yt, 0)

BSub(x, y) == BTrim(BSubC(x, y, 0))

\* -1, 0, 1 as x < y, x = y, x > y: the comparison of the limbs from index i down
RECURSIVE BCmpAt(_, _, _)
BCmpAt(x, y, i) ==
    IF i = 0 THEN 0
    ELSE IF x[i] < y[i] THEN -1
    ELSE IF x[i] > y[i] THEN 1
    ELSE BCmpAt(x, y, i - 1)

BCmp(x, y) ==
    IF Len(x) < Len(y) THEN -1
    ELSE IF Len(x) > Len(y) THEN 1
    ELSE BCmpAt(x, y, Len(x))

\* x * k + c for a limb-sized k
RECURSIVE BMulSmallC(_, _, _)
BMulSmallC(x, k, c) ==
    IF x = <<>> THEN (IF c = 0 THEN <<>> ELSE <<c>>)
    ELSE LET p == x[1] * k + c
         IN  <<p % LimbBase>> \o BMulSmallC(Tail(x), k, p \div LimbBase)

RECURSIVE BMulRec(_, _)
BMulRec(x, y) ==
    IF y = <<>> THEN <<>>
    ELSE BAdd(BMulSmallC(x, y[1], 0), <<0>> \o BMulRec(x, Tail(y)))

BMul(x, y) == IF x = <<>> \/ y = <<>> THEN <<>> ELSE BTrim(BMulRec(x, y))

\* <<quotient, remainder>> of x by a limb-sized d, the quotient untrimmed
RECURSIVE BDivSmallR(_, _)
BDivSmallPut(cur, d, q) == <<<<cur \div d>> \o q, cur % d>>

BDivSmallStep(limb, d, hi) == BDivSmallPut(hi[2] * LimbBase + limb, d, hi[1])

BDivSmallR(x, d) ==
    IF x = <<>> THEN <<<<>>, 0>> ELSE BDivSmallStep(x[1], d, BDivSmallR(Tail(x), d))

Zeros(n) == [i \in 1..n |-> 0]

\* x * 2^n
BShl(x, n) ==
    IF x = <<>> THEN <<>>
    ELSE Zeros(n \div 15) \o BMulSmallC(x, 2 ^ (n % 15), 0)

\* floor(x / 2^n)
BShr(x, n) ==
    LET k == n \div 15
    IN  IF k >= Len(x) THEN <<>>
        ELSE BTrim(BDivSmallR(SubSeq(x, k + 1, Len(x)), 2 ^ (n % 15))[1])

\* x mod 2^n
BLowBits(x, n) ==
    LET k == n \div 15
    IN  IF k >= Len(x) THEN x
        ELSE BTrim(SubSeq(x, 1, k) \o <<x[k + 1] % (2 ^ (n % 15))>>)

RECURSIVE BitLenSmall(_)
BitLenSmall(n) == IF n = 0 THEN 0 ELSE 1 + BitLenSmall(n \div 2)

BitLen(x) ==
    IF x = <<>> THEN 0
    ELSE 15 * (Len(x) - 1) + BitLenSmall(x[Len(x)])

\* One step of long division by y, whose top limb is at least 2^14: the digit
\* floor(cur / y) for cur < y * 2^15.  The quotient of the two top limbs of cur by the
\* top limb of y is the digit or exceeds it by at most 2 (Knuth, algorithm D).
BDigitFrom(cur, y, qhat) ==
    IF BCmp(BMulSmallC(y, qhat, 0), cur) <= 0 THEN qhat
    ELSE IF BCmp(BMulSmallC(y, qhat - 1, 0), cur) <= 0 THEN qhat - 1
    ELSE qhat - 2

BDigitTop(cur, y, top) ==
    BDigitFrom(cur, y,
               IF top \div y[Len(y)] >= LimbBase THEN LimbBase - 1
               ELSE top \div y[Len(y)])

BDigit(cur, y) ==
    IF Len(cur) < Len(y) THEN 0
    ELSE BDigitTop(cur, y,
                   (IF Len(cur) > Len(y) THEN cur[Len(y) + 1] * LimbBase ELSE 0)
                     + cur[Len(y)])

\* One more quotient limb: st is <<quotient limbs, remainder>> of a division by y,
\* whose top limb is at least 2^14, and the dividend gets a zero limb below
BDivSub(cur, y, digit, q) ==
    <<<<digit>> \o q, IF digit = 0 THEN cur ELSE BSub(cur, BMulSmallC(y, digit, 0))>>

BDivCur(cur, y, q) == BDivSub(cur, y, BDigit(cur, y), q)

BDivStep(y, st) ==
    IF st[2] = <<>> THEN <<<<0>> \o st[1], <<>>>>
    ELSE BDivCur(<<0>> \o st[2], y, st[1])

\* <<floor(x / y), x mod y>> for naturals x, y with x < 2 * y
BDivFirst(x, y) == IF BCmp(x, y) >= 0 THEN <<<<1>>, BSub(x, y)>> ELSE <<<<>>, x>>

BDivScaledOf(qr) == <<BTrim(qr[1]), qr[2] # <<>>>>

\* floor(x * 2^60 / y) and whether the division left a remainder, for x and y of
\* exactly 53 bits (x < 2 * y): the first quotient bit, then four limbs of 15 bits
BDivScaledBy(x, y) ==
    IF x = <<>> \/ y = <<>> THEN <<<<>>, FALSE>>
    ELSE BDivScaledOf(BDivStep(y, BDivStep(y, BDivStep(y, BDivStep(y, BDivFirst(x, y))))))

\* y is shifted by 7 bits, which brings its top limb to 15 bits, and x with it
BDivScaled(x, y) == BDivScaledBy(BShl(x, 7), BShl(y, 7))

(***************************************************************************)
(* Python floats.  [s, m, e] is the float s * m * 2^e with s in {1, -1}    *)
(* and m a natural of exactly 53 bits; zero is [s |-> 1, m |-> <<>>,       *)
(* e |-> 0] (the sign of a zero never reaches a result of the program).    *)
(* The values of the program stay far from the overflow and the subnormal  *)
(* range, so the exponent is unbounded here.                               *)
(***************************************************************************)
FZero == [s |-> 1, m |-> <<>>, e |-> 0]

\* q is the significand cut to 53 bits and c compares what was cut off with half a
\* unit of q: round to the nearest, a tie to the even significand.  A significand
\* that rounds up to 2^53 is halved.
FRoundCut(s, q, c, sticky, e) ==
    LET q1 == IF c > 0 \/ (c = 0 /\ (sticky \/ q[1] % 2 = 1))
              THEN BAddC(q, <<>>, 1) ELSE q
    IN  IF BitLen(q1) > 53 THEN [s |-> s, m |-> BShr(q1, 1), e |-> e + 1]
        ELSE [s |-> s, m |-> q1, e |-> e]

\* The float nearest to s * (n + t) * 2^e, where n is a natural and t is 0 or, when
\* sticky, some amount strictly between 0 and 1 (n has then more than 53 bits).
FRound(s, n, e, sticky) ==
    LET len == BitLen(n)
    IN  IF n = <<>> THEN FZero
        ELSE IF len <= 53 THEN [s |-> s, m |-> BShl(n, 53 - len), e |-> e - (53 - len)]
        ELSE FRoundCut(s, BShr(n, len - 53),
                       BCmp(BLowBits(n, len - 53), BShl(<<1>>, len - 54)),
                       sticky, e + (len - 53))

\* float(n) of an integer n
FromInt(n) ==
    FRound(IF n < 0 THEN -1 ELSE 1, BFromInt(IF n < 0 THEN -n ELSE n), 0, FALSE)

FNeg(x) == IF x.m = <<>> THEN x ELSE [x EXCEPT !.s = -x.s]

\* x * y
FMul(x, y) ==
    IF x.m = <<>> \/ y.m = <<>> THEN FZero
    ELSE FRound(x.s * y.s, BMul(x.m, y.m), x.e + y.e, FALSE)

\* x / y for y # 0: 60 more quotient bits than the significands give, the remainder sticky
FDivParts(s, qs, e) == FRound(s, qs[1], e, qs[2])

FDiv(x, y) ==
    IF y.m # <<>> /\ x.m = <<>> THEN FZero
    ELSE FDivParts(x.s * y.s, BDivScaled(x.m, y.m), x.e - y.e - 60)

\* x + y for x, y # 0, where a * 2^e and b * 2^e are their magnitudes
FAddAligned(x, y, a, b, e) ==
    IF x.s = y.s THEN FRound(x.s, BAdd(a, b), e, FALSE)
    ELSE IF BCmp(a, b) >= 0 THEN FRound(x.s, BSub(a, b), e, FALSE)
    ELSE FRound(y.s, BSub(b, a), e, FALSE)

FAddExp(x, y, e) == FAddAligned(x, y, BShl(x.m, x.e - e), BShl(y.m, y.e - e), e)

\* x + y
FAdd(x, y) ==
    IF x.m = <<>> THEN y
    ELSE IF y.m = <<>> THEN x
    ELSE FAddExp(x, y, IF x.e < y.e THEN x.e ELSE y.e)

\* x - y
FSub(x, y) == FAdd(x, FNeg(y))

FIsNegative(x) == x.m # <<>> /\ x.s = -1

\* x < y
FLess(x, y) == FIsNegative(FSub(x, y))

\* max and min of Python, one step: the greatest (least) so far is kept on a tie
FMax2(x, y) == IF FLess(x, y) THEN y ELSE x
FMin2(x, y) == IF FLess(y, x) THEN y ELSE x
FMax3(x, y, z) == FMax2(FMax2(x, y), z)
FMin3(x, y, z) == FMin2(FMin2(x, y), z)

\* int(x): the integer part, towards zero
PyInt(x) ==
    IF x.m = <<>> THEN 0
    ELSE IF x.e >= 0 THEN x.s * BToInt(BShl(x.m, x.e))
    ELSE x.s * BToInt(BShr(x.m, -x.e))

\* fmod(x, 1.0): the fraction of x with the sign of x, exact
FFrac(x) ==
    IF x.m = <<>> \/ x.e >= 0 THEN FZero
    ELSE FRound(x.s, BLowBits(x.m, -x.e), x.e, FALSE)

FOne == FromInt(1)

\* x % 1.0 (float_rem of CPython): fmod(x, 1.0), plus 1.0 when that is negative
FModFix(f) == IF FIsNegative(f) THEN FAdd(f, FOne) ELSE f
FMod1(x) == FModFix(FFrac(x))

(***************************************************************************)
(* The pure computations of the program.                                   *)
(***************************************************************************)

\* The choices of the zoom combobox, in percent (the combobox is read-only).
ZoomValues == {25, 50, 75, 100, 125, 150, 200, 300, 400}

\* on_zoom_change: float(zoom_text.rstrip('%')) / 100.0
ZoomFactorOf(pct) == FDiv(FromInt(pct), FromInt(100))

\* display_image, lines 446-448: one side of the image drawn on the canvas,
\* int(original_width * self.zoom_factor)
RenderedSize(size, pct) == PyInt(FMul(FromInt(size), ZoomFactorOf(pct)))

\* open_image: max_display_size, the largest width or height shown without a preview
max_display_size == 4096

\* create_display_version: the size of the reduced copy, or the size itself when the
\* scale is not below 1.0
ScaledSize(width, height, scale) ==
    IF FLess(scale, FOne)
    THEN <<PyInt(FMul(FromInt(width), scale)), PyInt(FMul(FromInt(height), scale))>>
    ELSE <<width, height>>

create_display_version(width, height) ==
    ScaledSize(width, height,
               FMin2(FDiv(FromInt(max_display_size), FromInt(width)),
                     FDiv(FromInt(max_display_size), FromInt(height))))

\* on_canvas_click, one axis of the branch taken when a reduced display copy exists:
\* display = canvas / zoom_factor; scale = original / display size; int(display * scale)
MapAxisScaled(canvas, zoom, original, display) ==
    PyInt(FMul(FDiv(FromInt(canvas), zoom), FDiv(FromInt(original), FromInt(display))))

\* on_canvas_click, one axis of the direct branch: int(canvas / zoom_factor)
MapAxisDirect(canvas, zoom) == PyInt(FDiv(FromInt(canvas), zoom))

\* on_canvas_click: the source coordinate of a canvas coordinate.  reduced is the
\* test display_image_obj != self.image.
MapAxis(canvas, pct, reduced, original, display) ==
    IF reduced THEN MapAxisScaled(canvas, ZoomFactorOf(pct), original, display)
    ELSE MapAxisDirect(canvas, ZoomFactorOf(pct))

\* A slip in the bounds test: the width and the height themselves pass
InBoundsInclusive(x, y, width, height) == 0 <= x /\ x <= width /\ 0 <= y /\ y <= height

\* on_canvas_click: the bounds test on the source coordinate
InBounds(x, y, width, height) == 0 <= x /\ x < width /\ 0 <= y /\ y < height

\* on_canvas_click, mode 'RGBA': one channel blended with a white background
\* alpha = a / 255.0; int(c * alpha + 255 * (1 - alpha))
Blend(c, alpha) ==
    PyInt(FAdd(FMul(FromInt(c), alpha), FMul(FromInt(255), FSub(FOne, alpha))))

\* A slip in the blend: the white background is left out
CompositeOnBlack(c, a) == PyInt(FMul(FromInt(c), FDiv(FromInt(a), FromInt(255))))

CompositeChannel(c, a) == Blend(c, FDiv(FromInt(a), FromInt(255)))

\* on_canvas_click: the (r, g, b) of a pixel value by image mode; "error" when the
\* conversion to RGB of another mode raises.  px is the value of getpixel: a tuple,
\* or for mode 'L' a number.  For 'P' and the other modes rgb is what
\* image.convert('RGB').getpixel gives at the same place.
DecodePixel(mode, px, rgb) ==
    IF mode = "RGB" THEN <<px[1], px[2], px[3]>>
    ELSE IF mode = "RGBA"
    THEN <<CompositeChannel(px[1], px[4]), CompositeChannel(px[2], px[4]),
           CompositeChannel(px[3], px[4])>>
    ELSE IF mode = "L" THEN <<px, px, px>>
    ELSE rgb

\* colorsys.rgb_to_hsv on floats, as called by the program: <<h, s, v>>
HueOf(r, g, maxc, rc, gc, bc) ==
    IF r = maxc THEN FSub(bc, gc)
    ELSE IF g = maxc THEN FSub(FAdd(FromInt(2), rc), bc)
    ELSE FSub(FAdd(FromInt(4), gc), rc)

HsvOfRange(r, g, b, maxc, rangec) ==
    <<FMod1(FDiv(HueOf(r, g, maxc, FDiv(FSub(maxc, r), rangec),
                       FDiv(FSub(maxc, g), rangec), FDiv(FSub(maxc, b), rangec)),
                 FromInt(6))),
      FDiv(rangec, maxc),
      maxc>>

HsvOfMaxMin(r, g, b, maxc, minc) ==
    IF minc = maxc THEN <<FZero, FZero, maxc>>
    ELSE HsvOfRange(r, g, b, maxc, FSub(maxc, minc))

rgb_to_hsv(r, g, b) == HsvOfMaxMin(r, g, b, FMax3(r, g, b), FMin3(r, g, b))

\* A slip in update_color_info: round() in place of int()
ScaleHsvRounded(hsv) ==
    <<PyInt(FAdd(FMul(hsv[1], FromInt(360)), FDiv(FOne, FromInt(2)))),
      PyInt(FAdd(FMul(hsv[2], FromInt(100)), FDiv(FOne, FromInt(2)))),
      PyInt(FAdd(FMul(hsv[3], FromInt(100)), FDiv(FOne, FromInt(2))))>>

\* h_deg = int(h * 360); s_percent = int(s * 100); v_percent = int(v * 100)
ScaleHsv(hsv) ==
    <<PyInt(FMul(hsv[1], FromInt(360))), PyInt(FMul(hsv[2], FromInt(100))),
      PyInt(FMul(hsv[3], FromInt(100)))>>

\* update_color_info: h_deg, s_percent, v_percent of an (r, g, b)
HsvOfUpdate(r, g, b) ==
    ScaleHsv(rgb_to_hsv(FDiv(FromInt(r), FromInt(255)), FDiv(FromInt(g), FromInt(255)),
                        FDiv(FromInt(b), FromInt(255))))

\* manual_capture_color: the same lines, written a second time in the program
ScaleHsvCaptured(hsv) ==
    <<PyInt(FMul(hsv[1], FromInt(360))), PyInt(FMul(hsv[2], FromInt(100))),
      PyInt(FMul(hsv[3], FromInt(100)))>>

HsvOfCapture(r, g, b) ==
    ScaleHsvCaptured(rgb_to_hsv(FDiv(FromInt(r), FromInt(255)),
                                FDiv(FromInt(g), FromInt(255)),
                                FDiv(FromInt(b), FromInt(255))))

\* The format specification 02X: upper-case hexadecimal digits, at least two, padded
\* with zeros on the left.  A string is a sequence of one-character strings.
HexDigits == <<"0", "1", "2", "3", "4", "5", "6", "7", "8", "9", "A", "B", "C", "D", "E", "F">>

RECURSIVE HexOf(_)
HexOf(n) ==
    IF n < 16 THEN <<HexDigits[n + 1]>>
    ELSE HexOf(n \div 16) \o <<HexDigits[(n % 16) + 1]>>

PadTo2(d) == IF Len(d) < 2 THEN <<"0">> \o d ELSE d

\* A slip in the format specification: X in place of 02X, no padding
FormatX(n) == HexOf(n)

Format02X(n) == PadTo2(HexOf(n))

\* update_color_info: hex_color = f"#{r:02X}{g:02X}{b:02X}"
HexOfUpdate(r, g, b) == <<"#">> \o Format02X(r) \o Format02X(g) \o Format02X(b)

\* manual_capture_color: the same format string, written a second time
HexOfCapture(r, g, b) == <<"#">> \o Format02X(r) \o Format02X(g) \o Format02X(b)

(***************************************************************************)
(* The state of the program.                                               *)
(***************************************************************************)
VARIABLES
    image,               \* self.image: NoImage is None, else the source image
    display_image_obj,   \* self.display_image_obj: NoImage before it is set

    zoom_factor,         \* self.zoom_factor, as the percentage it was computed from
    current_image_file,  \* "unset", or the base name of the loaded file
    color_records,       \* self.color_records
    record_count_label,  \* the count shown by record_count_label
    is_floating_mode,    \* self.is_floating_mode
    floating_window,     \* self.floating_window: FALSE is None
    floating_timer,      \* self.floating_timer: 0 is None, else the id of an after() call
    after_pending,       \* the ids of the after() calls the event loop still holds
    root_state,          \* the main window: "normal" or "withdrawn"
    floating_display,    \* the colour labels of the floating window
    now,                 \* the wall clock, in seconds
    ev,                  \* the event handled last and what it did, for a click, a clear
                         \* a capture, a tick, a stop, an export and a load;
                         \* [op |-> "other"] after the other events
    probe,               \* the inputs of a computation applied on its own
    result               \* its result, "none" before it is applied

vars == <<image, display_image_obj, zoom_factor, current_image_file, color_records,
          record_count_label, is_floating_mode, floating_window, floating_timer,
          after_pending, root_state, floating_display, now, ev, probe, result>>

imageVars == <<image, display_image_obj, zoom_factor, current_image_file>>

ledgerVars == <<color_records, record_count_label>>

floatVars == <<is_floating_mode, floating_window, floating_timer, after_pending,
               root_state, floating_display>>

fnVars == <<probe, result>>

appVars == <<imageVars, ledgerVars, floatVars, now, ev>>

\* None, and an attribute that is not set, where an image [file, mode, width, height,
\* content] can stand
NoImage == [file |-> "None"]

\* The colour labels while there is no floating window: there are none
NoDisplay == [rgb |-> <<>>, hex |-> <<>>]

\* __init__ and setup_ui: no image, zoom 1.0, no record, the label "0", no floating window
InitApp ==
    /\ image = NoImage
    /\ display_image_obj = NoImage
    /\ zoom_factor = 100
    /\ current_image_file = "unset"
    /\ color_records = <<>>
    /\ record_count_label = 0
    /\ is_floating_mode = FALSE
    /\ floating_window = FALSE
    /\ floating_timer = 0
    /\ after_pending = {}
    /\ root_state = "normal"
    /\ floating_display = NoDisplay
    /\ now = 0
    /\ ev = [op |-> "init"]

(***************************************************************************)
(* The computations applied on their own, to inputs drawn from samples.    *)
(***************************************************************************)

\* Canvas positions of a click, (x, y)
MapPoints ==
    {<<0, 0>>, <<400, 200>>, <<100, 50>>, <<-1, 10>>, <<7, 3>>, <<1472, 819>>,
     <<2624, 1472>>, <<4095, 3071>>, <<10, 1228>>}

\* Source and display sizes: images shown as they are, the reduced copies the program
\* makes of large images, and a 2000x1000 source with a 1000x500 display
MapSizes ==
    {[reduced |-> FALSE, width |-> 100, height |-> 100, dwidth |-> 100, dheight |-> 100],
     [reduced |-> FALSE, width |-> 5000, height |-> 3000, dwidth |-> 5000, dheight |-> 3000],
     [reduced |-> TRUE, width |-> 5000, height |-> 3000,
      dwidth |-> create_display_version(5000, 3000)[1],
      dheight |-> create_display_version(5000, 3000)[2]],
     [reduced |-> TRUE, width |-> 6000, height |-> 4500,
      dwidth |-> create_display_version(6000, 4500)[1],
      dheight |-> create_display_version(6000, 4500)[2]],
     [reduced |-> TRUE, width |-> 2000, height |-> 1000, dwidth |-> 1000, dheight |-> 500]}

MapProbes ==
    {[kind |-> "map", canvas |-> c, pct |-> z, size |-> d] :
        c \in MapPoints, z \in ZoomValues, d \in MapSizes}

\* Pixel values: RGBA quadruples, RGB triples, grey levels
ColourSamples == {<<100, 150, 200>>, <<0, 0, 0>>, <<255, 255, 255>>, <<1, 128, 254>>}
AlphaSamples == {0, 1, 43, 127, 128, 200, 254, 255}

DecodeProbes ==
    {[kind |-> "decode", mode |-> "RGBA", px |-> <<c[1], c[2], c[3], a>>] :
        c \in ColourSamples, a \in AlphaSamples}
    \cup {[kind |-> "decode", mode |-> "RGB", px |-> c] : c \in ColourSamples}
    \cup {[kind |-> "decode", mode |-> "L", px |-> k] : k \in AlphaSamples}

\* Colours: every grey, and the triples over a sample of channel values
ChannelSamples == {0, 3, 18, 60, 200, 255}

HsvProbes ==
    {[kind |-> "hsv", rgb |-> <<k, k, k>>] : k \in 0..255}
    \cup {[kind |-> "hsv", rgb |-> <<r, g, b>>] :
            r \in ChannelSamples, g \in ChannelSamples, b \in ChannelSamples}

InitFn ==
    /\ InitApp
    /\ probe \in MapProbes \cup DecodeProbes \cup HsvProbes
    /\ result = [update |-> "none", capture |-> "none"]

\* on_canvas_click, lines 498-521, applied to the probe
ApplyMap ==
    /\ probe.kind = "map"
    /\ result.update = "none"
    /\ result' = [result EXCEPT !.update =
           <<MapAxis(probe.canvas[1], probe.pct, probe.size.reduced,
                     probe.size.width, probe.size.dwidth),
             MapAxis(probe.canvas[2], probe.pct, probe.size.reduced,
                     probe.size.height, probe.size.dheight)>>]
    /\ UNCHANGED <<appVars, probe>>

\* on_canvas_click, lines 529-552, applied to the probe
ApplyDecode ==
    /\ probe.kind = "decode"
    /\ result.update = "none"
    /\ result' = [result EXCEPT !.update = DecodePixel(probe.mode, probe.px, probe.px)]
    /\ UNCHANGED <<appVars, probe>>

\* update_color_info, lines 571-575, applied to the probe
ApplyHsvUpdate ==
    /\ probe.kind = "hsv"
    /\ result.update = "none"
    /\ result' = [result EXCEPT !.update =
                      HsvOfUpdate(probe.rgb[1], probe.rgb[2], probe.rgb[3])]
    /\ UNCHANGED <<appVars, probe>>

\* manual_capture_color, lines 1058-1062, applied to the probe
ApplyHsvCapture ==
    /\ probe.kind = "hsv"
    /\ result.capture = "none"
    /\ result' = [result EXCEPT !.capture =
                      HsvOfCapture(probe.rgb[1], probe.rgb[2], probe.rgb[3])]
    /\ UNCHANGED <<appVars, probe>>

NextFn == ApplyMap \/ ApplyDecode \/ ApplyHsvUpdate \/ ApplyHsvCapture

SpecFn == InitFn /\ [][NextFn]_vars

(***************************************************************************)
(* The program: the files the user can open, and one action per handler.   *)
(***************************************************************************)

\* The most records the ledger holds in the model
MaxRecords == 2

\* The last second of the wall clock in the model
MaxClock == 1

\* Image.open: mode and size of the files offered to the file dialog.
\* test_image.gif is the palette image of create_test_images.py; scan.png has an
\* alpha channel and is wider and higher than max_display_size; depth.tif holds
\* 16-bit samples, a mode that convert('RGB') refuses.
Files == {"test_image.gif", "scan.png", "depth.tif"}

FileMode(file) ==
    CASE file = "test_image.gif" -> "P"
      [] file = "scan.png" -> "RGBA"
      [] file = "depth.tif" -> "I;16"

FileSize(file) ==
    CASE file = "test_image.gif" -> <<100, 100>>
      [] file = "scan.png" -> <<6000, 4500>>
      [] file = "depth.tif" -> <<64, 48>>

\* image.convert('RGB'): whether it gives an image of a mode, or raises
CanConvert(mode) == mode # "I;16"

\* create_test_images: red, green, blue and yellow quarters
QuarterColour(x, y) ==
    IF y < 50 THEN (IF x < 50 THEN <<255, 0, 0>> ELSE <<0, 255, 0>>)
    ELSE (IF x < 50 THEN <<0, 0, 255>> ELSE <<255, 255, 0>>)

\* The pixel of a file as decoded by Image.open: a quadruple with alpha, or for the
\* palette image the index of the colour in the palette
FilePixel(file, x, y) ==
    CASE file = "test_image.gif" ->
            (CASE QuarterColour(x, y) = <<255, 0, 0>> -> 0
               [] QuarterColour(x, y) = <<0, 255, 0>> -> 1
               [] QuarterColour(x, y) = <<0, 0, 255>> -> 2
               [] OTHER -> 3)
      [] file = "scan.png" ->
            (IF x < 100 THEN <<100, 150, 200, 128>> ELSE <<0, 3, 18, 43>>)
      [] file = "depth.tif" -> 4660

\* Image.convert('RGB') of a file's pixel
ConvertedPixel(file, x, y) ==
    CASE file = "test_image.gif" -> QuarterColour(x, y)
      [] file = "scan.png" ->
            <<FilePixel(file, x, y)[1], FilePixel(file, x, y)[2], FilePixel(file, x, y)[3]>>

\* Image.open(file_path): the image object of a file
OpenedImage(file) ==
    [file |-> file, mode |-> FileMode(file), width |-> FileSize(file)[1],
     height |-> FileSize(file)[2], content |-> "decoded"]

\* image.convert('RGB'): a new image of the same size
ConvertedImage(img) ==
    [img EXCEPT !.mode = "RGB", !.content = IF @ = "decoded" THEN "converted" ELSE @]

\* image.resize((new_width, new_height), LANCZOS): the contents the filter can give
Resamplings == {"resampled"}

ResizedImage(img, size, content) ==
    [img EXCEPT !.width = size[1], !.height = size[2], !.content = content]

\* Image.__ne__: two images differ when mode, size or pixels differ
ImagesDiffer(a, b) == a # b

\* image.getpixel((x, y)) on an image in its own mode or converted to RGB.  A reduced
\* copy holds mixtures of the colours of the source.
GetPixel(img, x, y) ==
    IF img.content = "decoded" THEN FilePixel(img.file, x, y)
    ELSE IF img.content = "converted" THEN ConvertedPixel(img.file, x, y)
    ELSE <<50, 76, 109, 85>>

\* Canvas positions of a click on the main window, (canvasx, canvasy)
ClickPoints == {<<0, 0>>, <<100, 50>>, <<-1, 10>>}

\* The choices of the zoom combobox taken in the runs of the program
ZoomChoices == {50, 100}

\* A slip in add_color_record: the sequence number without the + 1
SequenceOfAddFromZero(records) == Len(records)

\* add_color_record: 'sequence': len(self.color_records) + 1
SequenceOfAdd(records) == Len(records) + 1

\* A slip in add_color_record: the attribute is never found
ImageFileUnknown(file) == "Unknown"

\* add_color_record: 'image_file': getattr(self, 'current_image_file', 'Unknown')
ImageFileOf(file) == IF file = "unset" THEN "Unknown" ELSE file

\* A slip in add_color_record: the records before are stamped with the time of the new one
add_color_record_restamped(records, clock, file, x, y, rgb, hsv, hex) ==
    Append([i \in 1..Len(records) |-> [records[i] EXCEPT !.timestamp = clock]],
           [timestamp |-> clock, sequence |-> SequenceOfAdd(records),
            position |-> <<x, y>>, rgb |-> rgb, hsv |-> hsv, hex |-> hex,
            image_file |-> ImageFileOf(file)])

\* add_color_record: the record appended to self.color_records
add_color_record(records, clock, file, x, y, rgb, hsv, hex) ==
    Append(records,
           [timestamp |-> clock, sequence |-> SequenceOfAdd(records),
            position |-> <<x, y>>, rgb |-> rgb, hsv |-> hsv, hex |-> hex,
            image_file |-> ImageFileOf(file)])

\* update_color_info: the arguments it computes for add_color_record
update_color_info(x, y, rgb) ==
    [inside |-> TRUE, at |-> <<x, y>>, rgb |-> rgb,
     hsv |-> HsvOfUpdate(rgb[1], rgb[2], rgb[3]),
     hex |-> HexOfUpdate(rgb[1], rgb[2], rgb[3])]

\* update_record_count: the number shown by record_count_label
update_record_count(records) == Len(records)

\* open_image, lines 351-369: the image shown, a reduced copy when the image is large
\* and the user asks for a preview
DisplayOf(img, response, content) ==
    IF (img.width > max_display_size \/ img.height > max_display_size) /\ response
    THEN ResizedImage(img, create_display_version(img.width, img.height), content)
    ELSE img

\* open_image, lines 372-378: an image of another mode than RGB and RGBA is converted,
\* and the display image when it differs from the converted image
\* When convert raises the warning is shown and both images stay as they are.
LoadedImage(img) ==
    IF img.mode \notin {"RGB", "RGBA"} /\ CanConvert(img.mode) THEN ConvertedImage(img)
    ELSE img

LoadedDisplay(img, disp) ==
    IF img.mode \notin {"RGB", "RGBA"} /\ CanConvert(img.mode)
       /\ ImagesDiffer(disp, ConvertedImage(img))
    THEN ConvertedImage(disp)
    ELSE disp

\* A slip in open_image: self.image is assigned before the reduced copy is made
ImageAssignedBeforeResize(before, opened) == opened

\* open_image, lines 361-363: create_display_version is called before self.image and
\* self.display_image_obj are assigned, so when image.resize raises self.image is
\* the image it was before
ImageAtResizeFailure(before, opened) == before

\* open_image.  The file dialog gives no path, or a path Image.open cannot read, or
\* an image file; for a large image the user answers the preview question, and
\* image.resize of create_display_version gives the reduced copy or raises.  When
\* ImageTk.PhotoImage raises in display_image, the images, the file name and the zoom
\* factor are assigned already; the except clause of line 394 shows the error.  The
\* handlers of the main window run while the window is shown.
open_image ==
    /\ root_state = "normal"
    /\ \/ /\ ev' = [op |-> "open", failed |-> "no path"]
          /\ UNCHANGED imageVars
       \/ /\ ev' = [op |-> "open", failed |-> "Image.open"]
          /\ UNCHANGED imageVars
       \/ \E file \in Files :
            /\ OpenedImage(file).width > max_display_size
                   \/ OpenedImage(file).height > max_display_size
            /\ image' = ImageAtResizeFailure(image, OpenedImage(file))
            /\ ev' = [op |-> "open", failed |-> "resize"]
            /\ UNCHANGED <<display_image_obj, current_image_file, zoom_factor>>
       \/ \E file \in Files, response \in BOOLEAN, content \in Resamplings :
            /\ image' = LoadedImage(OpenedImage(file))
            /\ display_image_obj' =
                   LoadedDisplay(OpenedImage(file),
                                 DisplayOf(OpenedImage(file), response, content))
            /\ current_image_file' = file
            /\ zoom_factor' = 100
            /\ \E step \in {"nothing", "PhotoImage"} :
                 ev' = [op |-> "open", failed |-> step]
    /\ UNCHANGED <<ledgerVars, floatVars, now, fnVars>>

\* on_zoom_change: the zoom factor of the combobox choice
on_zoom_change ==
    /\ root_state = "normal"
    /\ \E pct \in ZoomChoices : zoom_factor' = pct
    /\ ev' = [op |-> "other"]
    /\ UNCHANGED <<image, display_image_obj, current_image_file, ledgerVars, floatVars,
                   now, fnVars>>

\* reset_zoom
reset_zoom ==
    /\ root_state = "normal"
    /\ zoom_factor' = 100
    /\ ev' = [op |-> "other"]
    /\ UNCHANGED <<image, display_image_obj, current_image_file, ledgerVars, floatVars,
                   now, fnVars>>

\* on_canvas_click, lines 503-521: the source coordinates of a canvas position
MapClick(canvas, pct, img, disp) ==
    <<MapAxis(canvas[1], pct, disp # NoImage /\ ImagesDiffer(disp, img),
              img.width, IF disp = NoImage THEN 0 ELSE disp.width),
      MapAxis(canvas[2], pct, disp # NoImage /\ ImagesDiffer(disp, img),
              img.height, IF disp = NoImage THEN 0 ELSE disp.height)>>

\* A slip in on_canvas_click: the pixel is read from the image that is shown
PixelAtDisplay(img, disp, x, y) == GetPixel(disp, x, y)

\* on_canvas_click, line 527: pixel_color = self.image.getpixel((original_x, original_y))
PixelAt(img, disp, x, y) == GetPixel(img, x, y)

\* A slip in on_canvas_click: a pixel that cannot be decoded is taken for black
DecodeFailureAsBlack(at) == update_color_info(at[1], at[2], <<0, 0, 0>>)

\* on_canvas_click, lines 545-552: convert('RGB') raises on an image of another mode
\* than 'RGB', 'RGBA', 'L' and 'P'; messagebox.showerror and return
DecodeFailure(at) == [inside |-> TRUE, at |-> at, message |-> "showerror"]

\* on_canvas_click, lines 524-555: what a click at the source coordinates at gives
\* update_color_info, or the coordinates alone when they are outside the image
ClickResultAt(img, disp, at) ==
    IF InBounds(at[1], at[2], img.width, img.height)
    THEN IF img.mode \in {"RGB", "RGBA", "L", "P"} \/ CanConvert(img.mode)
         THEN update_color_info(at[1], at[2],
                                DecodePixel(img.mode, PixelAt(img, disp, at[1], at[2]),
                                            ConvertedPixel(img.file, at[1], at[2])))
         ELSE DecodeFailure(at)
    ELSE [inside |-> FALSE, at |-> at]

\* on_canvas_click, lines 498-555, for a canvas position, a zoom factor and the images
ClickResult(canvas, pct, img, disp) ==
    ClickResultAt(img, disp, MapClick(canvas, pct, img, disp))

\* The images open_image leaves in self.image and self.display_image_obj
LoadedImages ==
    {<<LoadedImage(OpenedImage(file)),
       LoadedDisplay(OpenedImage(file), DisplayOf(OpenedImage(file), response, content))>> :
        file \in Files, response \in BOOLEAN, content \in Resamplings}

\* ClickResult for the clicks of the runs, computed once
ClickResults ==
    [canvas \in ClickPoints, pct \in ZoomChoices, images \in LoadedImages |->
        ClickResult(canvas, pct, images[1], images[2])]

\* on_canvas_click, the call of update_color_info and add_color_record
ClickOn(hit) ==
    IF hit.inside /\ "rgb" \notin DOMAIN hit
    THEN /\ ev' = [op |-> "click", at |-> hit.at, outcome |-> "error", decoded |-> FALSE,
                   message |-> hit.message]
         /\ UNCHANGED ledgerVars
    ELSE IF hit.inside
    THEN /\ Len(color_records) < MaxRecords
         /\ color_records' =
                add_color_record(color_records, now, current_image_file, hit.at[1],
                                 hit.at[2], hit.rgb, hit.hsv, hit.hex)
         /\ record_count_label' = update_record_count(color_records')
         /\ ev' = [op |-> "click", at |-> hit.at, outcome |-> "recorded", decoded |-> TRUE]
    ELSE /\ ev' = [op |-> "click", at |-> hit.at, outcome |-> "rejected",
                   decoded |-> FALSE]
         /\ UNCHANGED ledgerVars

\* on_canvas_click
on_canvas_click ==
    /\ root_state = "normal"
    /\ \E canvas \in ClickPoints :
         IF image = NoImage
         THEN /\ ev' = [op |-> "click", outcome |-> "no image", decoded |-> FALSE]
              /\ UNCHANGED ledgerVars
         ELSE ClickOn(ClickResults[canvas, zoom_factor, <<image, display_image_obj>>])
    /\ UNCHANGED <<imageVars, floatVars, now, fnVars>>

\* A slip in clear_records: the answer to the confirmation question is not read
ClearedWhateverAnswer(records, response) == <<>>

\* clear_records: the records after the confirmation question was answered
ClearedRecords(records, response) == IF response THEN <<>> ELSE records

\* clear_records
clear_records ==
    /\ root_state = "normal"
    /\ IF color_records # <<>>
       THEN \E response \in BOOLEAN :
              /\ color_records' = ClearedRecords(color_records, response)
              /\ record_count_label' =
                     IF response THEN update_record_count(color_records')
                     ELSE record_count_label
              /\ ev' = [op |-> "clear", asked |-> TRUE, response |-> response]
       ELSE /\ ev' = [op |-> "clear", asked |-> FALSE, response |-> FALSE]
            /\ UNCHANGED ledgerVars
    /\ UNCHANGED <<imageVars, floatVars, now, fnVars>>

\* root.after(50, self.start_screen_capture): the event loop holds the call under an
\* id that no call it holds has and that differs from the id kept in floating_timer
\* (an id is never given twice; the ids no longer held or kept are told apart by
\* nothing, so the least such id stands for the new one)
AfterId(pending, timer) ==
    CHOOSE id \in 1..(Cardinality(pending) + 2) :
        /\ id \notin pending
        /\ id # timer
        /\ \A other \in 1..(id - 1) : other \in pending \/ other = timer

\* setup_floating_ui: the labels of a new floating window, "RGB: (0, 0, 0)" and
\* "HEX: #000000"
InitialDisplay == [rgb |-> <<0, 0, 0>>, hex |-> <<"#", "0", "0", "0", "0", "0", "0">>]

\* The pointer positions winfo_pointerx and winfo_pointery give, the size of the
\* screenshot of ImageGrab.grab and the pixels getpixel gives on it
PointerPositions == {<<12, 34>>, <<-1, -1>>}

ScreenSize == <<1920, 1080>>

ScreenPixels == {<<0, 3, 18>>}

\* ImageGrab.grab() raises, or gives a screenshot: the pointer and the pixel under it,
\* if any
Grabs ==
    {[ok |-> FALSE]}
    \cup {[ok |-> TRUE, pointer |-> pointer, pixel |-> pixel] :
            pointer \in PointerPositions, pixel \in ScreenPixels}

\* start_screen_capture and manual_capture_color: the tests a pixel passes to be used
GrabHit(grab) ==
    /\ grab.ok
    /\ InBounds(grab.pointer[1], grab.pointer[2], ScreenSize[1], ScreenSize[2])
    /\ Len(grab.pixel) >= 3

\* update_floating_display: the labels show r, g, b and f"#{r:02X}{g:02X}{b:02X}"
update_floating_display(r, g, b) ==
    [rgb |-> <<r, g, b>>, hex |-> <<"#">> \o Format02X(r) \o Format02X(g) \o Format02X(b)]

\* update_floating_display for the pixels of the runs, computed once
FloatingDisplays ==
    [pixel \in ScreenPixels |-> update_floating_display(pixel[1], pixel[2], pixel[3])]

\* A slip in start_screen_capture: a failed or off-screen grab blanks the labels
ShownOrBlank(shown, grab) ==
    IF GrabHit(grab) THEN FloatingDisplays[grab.pixel] ELSE InitialDisplay

\* start_screen_capture, lines 996-1012: the labels after one grab; an exception of
\* the grab is printed and the labels stay
ShownAfter(shown, grab) ==
    IF GrabHit(grab) THEN FloatingDisplays[grab.pixel] ELSE shown

\* What one grab of start_screen_capture did
TickOutcome(grab) ==
    IF ~grab.ok THEN "grab failed"
    ELSE IF GrabHit(grab) THEN "published"
    ELSE "off screen"

\* manual_capture_color: 'sequence': len(self.color_records) + 1
SequenceOfCapture(records) == Len(records) + 1

\* manual_capture_color, lines 1056-1065: the colour of the pixel, its HSV and hex
CapturedColour(pixel) ==
    [rgb |-> <<pixel[1], pixel[2], pixel[3]>>,
     hsv |-> HsvOfCapture(pixel[1], pixel[2], pixel[3]),
     hex |-> HexOfCapture(pixel[1], pixel[2], pixel[3])]

\* CapturedColour for the pixels of the runs, computed once
CapturedColours == [pixel \in ScreenPixels |-> CapturedColour(pixel)]

\* A slip in manual_capture_color: the record is named after the image file
CapturedRecordOfFile(records, clock, pointer, colour) ==
    [timestamp |-> clock, sequence |-> SequenceOfCapture(records),
     position |-> pointer, rgb |-> colour.rgb, hsv |-> colour.hsv, hex |-> colour.hex,
     image_file |-> "Unknown"]

\* manual_capture_color, lines 1068-1076: the record appended
CapturedRecord(records, clock, pointer, colour) ==
    [timestamp |-> clock, sequence |-> SequenceOfCapture(records),
     position |-> pointer, rgb |-> colour.rgb, hsv |-> colour.hsv, hex |-> colour.hex,
     image_file |-> "Screen Capture"]

\* A slip in start_screen_capture: the colour shown is recorded as well
RecordsAfterTickAppended(records, clock, grab) ==
    IF GrabHit(grab)
    THEN Append(records,
                CapturedRecord(records, clock, grab.pointer, CapturedColours[grab.pixel]))
    ELSE records

\* start_screen_capture, lines 1005-1009: the colour goes to update_floating_display
\* and nowhere else; self.color_records is not touched
RecordsAfterTick(records, clock, grab) == records

\* A slip in stop_floating_mode: the call of after_cancel is left out
TimerLeftPending(pending, timer) == pending

\* stop_floating_mode, lines 891-893: root.after_cancel(self.floating_timer) when a
\* timer is kept
TimerCancelled(pending, timer) == IF timer # 0 THEN pending \ {timer} ELSE pending

\* A slip in start_floating_mode: the except clause does not call stop_floating_mode
StartFailureUnhandled(created) == [running |-> TRUE, window |-> created]

\* start_floating_mode, lines 881-883: when a call raises, the flag set on line 869
\* and the window create_floating_window made, if it made one, are undone by
\* stop_floating_mode
AfterFailedStart(created) == [running |-> FALSE, window |-> FALSE]

\* start_floating_mode: the flag, create_floating_window with its new labels,
\* root.withdraw() and the first call of start_screen_capture; or
\* create_floating_window raises, before or after it made the window, and the except
\* clause shows the error and calls stop_floating_mode
start_floating_mode ==
    \/ /\ is_floating_mode' = TRUE
       /\ floating_window' = TRUE
       /\ root_state' = "withdrawn"
       /\ \E grab \in Grabs :
            /\ floating_display' = ShownAfter(InitialDisplay, grab)
            /\ floating_timer' = AfterId(after_pending, floating_timer)
            /\ after_pending' = after_pending \cup {floating_timer'}
       /\ ev' = [op |-> "start", failed |-> FALSE]
    \/ \E created \in BOOLEAN :
         /\ is_floating_mode' = AfterFailedStart(created).running
         /\ floating_window' = AfterFailedStart(created).window
         /\ after_pending' = TimerCancelled(after_pending, floating_timer)
         /\ floating_timer' = 0
         /\ floating_display' = NoDisplay
         /\ root_state' = "normal"
         /\ ev' = [op |-> "start", failed |-> TRUE]

\* A slip in stop_floating_mode: the flag is flipped
RunningAfterStopFlipped(running) == ~running

\* stop_floating_mode, line 887: self.is_floating_mode = False
RunningAfterStop(running) == FALSE

\* stop_floating_mode: the flag, the timer, the window with its labels, and the main
\* window shown again
stop_floating_mode ==
    /\ is_floating_mode' = RunningAfterStop(is_floating_mode)
    /\ after_pending' = TimerCancelled(after_pending, floating_timer)
    /\ floating_timer' = 0
    /\ floating_window' = FALSE
    /\ floating_display' = NoDisplay
    /\ root_state' = "normal"
    /\ ev' = [op |-> "stop", running |-> is_floating_mode]

\* toggle_floating_mode: the button of the main window
toggle_floating_mode ==
    /\ root_state = "normal"
    /\ IF ~is_floating_mode THEN start_floating_mode ELSE stop_floating_mode
    /\ UNCHANGED <<imageVars, ledgerVars, now, fnVars>>

\* The close button of the floating window and its WM_DELETE_WINDOW protocol
close_floating_window ==
    /\ floating_window
    /\ stop_floating_mode
    /\ UNCHANGED <<imageVars, ledgerVars, now, fnVars>>

\* stop_floating_mode called while there is no floating window
stop_when_stopped ==
    /\ ~floating_window
    /\ stop_floating_mode
    /\ UNCHANGED <<imageVars, ledgerVars, now, fnVars>>

\* start_screen_capture, called by the event loop when the delay of the after() call
\* id has passed.  When winfo_pointerx, winfo_pointery or root.after raises, the
\* except clause of line 1017 calls stop_floating_mode, whose after_cancel finds the
\* id kept in floating_timer no longer held.
start_screen_capture ==
    /\ \E id \in after_pending :
         IF is_floating_mode /\ floating_window
         THEN \/ \E grab \in Grabs :
                   /\ floating_display' = ShownAfter(floating_display, grab)
                   /\ floating_timer' = AfterId(after_pending \ {id}, floating_timer)
                   /\ after_pending' = (after_pending \ {id}) \cup {floating_timer'}
                   /\ color_records' = RecordsAfterTick(color_records, now, grab)
                   /\ ev' = [op |-> "tick", outcome |-> TickOutcome(grab)]
                   /\ UNCHANGED <<is_floating_mode, floating_window, root_state>>
              \/ /\ is_floating_mode' = RunningAfterStop(is_floating_mode)
                 /\ after_pending' = TimerCancelled(after_pending \ {id}, floating_timer)
                 /\ floating_timer' = 0
                 /\ floating_window' = FALSE
                 /\ floating_display' = NoDisplay
                 /\ root_state' = "normal"
                 /\ ev' = [op |-> "tick", outcome |-> "loop error"]
                 /\ UNCHANGED color_records
         ELSE /\ after_pending' = after_pending \ {id}
              /\ ev' = [op |-> "tick", outcome |-> "stopped"]
              /\ UNCHANGED <<floating_timer, floating_display, color_records,
                             is_floating_mode, floating_window, root_state>>
    /\ UNCHANGED <<imageVars, record_count_label, now, fnVars>>

\* manual_capture_color: the capture button and Control-click of the floating window.
\* An exception of ImageGrab.grab is shown with messagebox.showerror.
manual_capture_color ==
    /\ floating_window
    /\ \E grab \in Grabs :
         IF ~grab.ok
         THEN /\ ev' = [op |-> "capture", outcome |-> "error"]
              /\ UNCHANGED ledgerVars
         ELSE IF GrabHit(grab)
         THEN /\ Len(color_records) < MaxRecords
              /\ color_records' =
                     Append(color_records,
                            CapturedRecord(color_records, now, grab.pointer,
                                           CapturedColours[grab.pixel]))
              /\ record_count_label' = update_record_count(color_records')
              /\ ev' = [op |-> "capture", outcome |-> "recorded",
                        pointer |-> grab.pointer, pixel |-> grab.pixel]
         ELSE /\ ev' = [op |-> "capture", outcome |-> "off screen"]
              /\ UNCHANGED ledgerVars
    /\ UNCHANGED <<imageVars, floatVars, now, fnVars>>

(***************************************************************************)
(* The export.  A text is a sequence of one-character strings; a string the *)
(* program copies whole (a file name, a literal) is kept as one element.    *)
(* The Chinese literals of the program are written in English.              *)
(***************************************************************************)

DecDigits == <<"0", "1", "2", "3", "4", "5", "6", "7", "8", "9">>

RECURSIVE DecNat(_)
DecNat(n) ==
    IF n < 10 THEN <<DecDigits[n + 1]>>
    ELSE DecNat(n \div 10) \o <<DecDigits[(n % 10) + 1]>>

\* str(n) of an integer, and the {n} of an f-string
Str(n) == IF n < 0 THEN <<"-">> \o DecNat(-n) ELSE DecNat(n)

\* datetime.now().strftime('%Y-%m-%d %H:%M:%S'): the text of a second of the clock,
\* which is what a record keeps as its timestamp
StrfTime(clock) == <<"T">> \o DecNat(clock)

\* A string copied whole
Text(string) == <<string>>

\* The record as the dict the program keeps, for json.dump
JsonRecord(record) ==
    [timestamp |-> StrfTime(record.timestamp),
     sequence |-> record.sequence,
     position |-> [x |-> record.position[1], y |-> record.position[2]],
     rgb |-> [r |-> record.rgb[1], g |-> record.rgb[2], b |-> record.rgb[3]],
     hsv |-> [h |-> record.hsv[1], s |-> record.hsv[2], v |-> record.hsv[3]],
     hex |-> record.hex,
     image_file |-> record.image_file]

\* export_to_json: the document given to json.dump
export_to_json(records, clock) ==
    [export_info |->
         [timestamp |-> StrfTime(clock), total_records |-> Len(records),
          tool_version |-> "1.0", format |-> "JSON"],
     color_records |-> [i \in 1..Len(records) |-> JsonRecord(records[i])]]

\* export_to_csv: headers
CsvHeaders ==
    <<Text("No."), Text("Timestamp"), Text("Image file"), Text("X"), Text("Y"),
      Text("R"), Text("G"), Text("B"), Text("Hex"), Text("H (deg)"), Text("S (%)"),
      Text("V (%)")>>

\* export_to_csv: row; csv.writer writes str() of a number
CsvRow(record) ==
    <<Str(record.sequence), StrfTime(record.timestamp), Text(record.image_file),
      Str(record.position[1]), Str(record.position[2]),
      Str(record.rgb[1]), Str(record.rgb[2]), Str(record.rgb[3]),
      record.hex,
      Str(record.hsv[1]), Str(record.hsv[2]), Str(record.hsv[3])>>

\* export_to_csv: the rows written
export_to_csv(records, clock) ==
    <<CsvHeaders>> \o [i \in 1..Len(records) |-> CsvRow(records[i])]

\* ET.SubElement(parent, tag) with its text or its children
Element(tag, text, children) ==
    [tag |-> tag, attrib |-> <<>>, text |-> text, children |-> children]

\* export_to_xml: the ColorRecord element of a record
XmlRecord(record) ==
    [tag |-> "ColorRecord",
     attrib |-> <<<<"sequence", Str(record.sequence)>>>>,
     text |-> <<>>,
     children |->
         <<Element("Timestamp", StrfTime(record.timestamp), <<>>),
           Element("ImageFile", Text(record.image_file), <<>>),
           Element("Position", <<>>,
                   <<Element("X", Str(record.position[1]), <<>>),
                     Element("Y", Str(record.position[2]), <<>>)>>),
           Element("RGB", <<>>,
                   <<Element("R", Str(record.rgb[1]), <<>>),
                     Element("G", Str(record.rgb[2]), <<>>),
                     Element("B", Str(record.rgb[3]), <<>>),
                     Element("Hex", record.hex, <<>>)>>),
           Element("HSV", <<>>,
                   <<Element("H", Str(record.hsv[1]), <<>>),
                     Element("S", Str(record.hsv[2]), <<>>),
                     Element("V", Str(record.hsv[3]), <<>>)>>)>>]

\* export_to_xml: the tree written
export_to_xml(records, clock) ==
    Element("ColorRecords", <<>>,
            <<Element("ExportInfo", <<>>,
                      <<Element("Timestamp", StrfTime(clock), <<>>),
                        Element("TotalRecords", Str(Len(records)), <<>>),
                        Element("ToolVersion", Text("1.0"), <<>>),
                        Element("Format", Text("XML"), <<>>)>>),
              Element("Records", <<>>,
                      [i \in 1..Len(records) |-> XmlRecord(records[i])])>>)

\* A slip in export_to_txt: enumerate without its start
TxtNumberFromZero(i, record) == i - 1

\* export_to_txt: for i, record in enumerate(self.color_records, 1); "Record #{i}"
TxtNumber(i, record) == i

\* export_to_txt: the lines of a record, each the parts of its f-string
TxtRecord(i, record) ==
    <<<<Text("Record #"), Str(TxtNumber(i, record))>>,
      <<Text("Time: "), StrfTime(record.timestamp)>>,
      <<Text("Image file: "), Text(record.image_file)>>,
      <<Text("Position: ("), Str(record.position[1]), Text(", "),
        Str(record.position[2]), Text(")")>>,
      <<Text("RGB: ("), Str(record.rgb[1]), Text(", "), Str(record.rgb[2]), Text(", "),
        Str(record.rgb[3]), Text(")")>>,
      <<Text("HSV: ("), Str(record.hsv[1]), Text("deg, "), Str(record.hsv[2]),
        Text("%, "), Str(record.hsv[3]), Text("%)")>>,
      <<Text("Hex: "), record.hex>>,
      <<Text("------------------------------")>>,
      <<>>>>

\* export_to_txt: the lines before the records
TxtHeader(records, clock) ==
    <<<<Text("Color records export file")>>,
      <<Text("==================================================")>>,
      <<Text("Export time: "), StrfTime(clock)>>,
      <<Text("Total records: "), Str(Len(records))>>,
      <<Text("==================================================")>>,
      <<>>>>

RECURSIVE TxtRecords(_, _)
TxtRecords(records, i) ==
    IF i > Len(records) THEN <<>>
    ELSE TxtRecord(i, records[i]) \o TxtRecords(records, i + 1)

\* export_to_txt: the lines written
export_to_txt(records, clock) == TxtHeader(records, clock) \o TxtRecords(records, 1)

\* export_records: the formats of the radio buttons
ExportFormats == {"json", "csv", "xml", "txt"}

\* save_records: the exporter of a format
ExportFile(format, records, clock) ==
    CASE format = "json" -> export_to_json(records, clock)
      [] format = "csv" -> export_to_csv(records, clock)
      [] format = "xml" -> export_to_xml(records, clock)
      [] format = "txt" -> export_to_txt(records, clock)

\* A slip in save_records: the records are dropped once they are written
RecordsAfterExportDropped(records, outcome) ==
    IF outcome = "written" THEN <<>> ELSE records

\* save_records and the exporters read self.color_records and never assign it
RecordsAfterExport(records, outcome) == records

\* What the export button brings about
ExportOutcome(outcome) ==
    /\ ev' = outcome
    /\ color_records' = RecordsAfterExport(color_records, outcome.outcome)

\* export_records and save_records.  Without records a warning is shown.  The export
\* window is left with its cancel button, or with a format and then the file dialog
\* without a path; or the file dialog gives a path, and the exporter writes the file
\* or raises, which is shown with messagebox.showerror.
export_records ==
    /\ root_state = "normal"
    /\ IF color_records = <<>>
       THEN ExportOutcome([op |-> "export", outcome |-> "no records"])
       ELSE \/ ExportOutcome([op |-> "export", outcome |-> "cancelled"])
            \/ \E format \in ExportFormats :
                 \/ ExportOutcome([op |-> "export", outcome |-> "written",
                                   format |-> format,
                                   file |-> ExportFile(format, color_records, now)])
                 \/ ExportOutcome([op |-> "export", outcome |-> "failed",
                                   format |-> format, message |-> "showerror"])
    /\ UNCHANGED <<record_count_label, imageVars, floatVars, now, fnVars>>

\* datetime.now(): the wall clock passes from one second to the next
clock_second ==
    /\ now < MaxClock
    /\ now' = now + 1
    /\ ev' = [op |-> "other"]
    /\ UNCHANGED <<imageVars, ledgerVars, floatVars, fnVars>>

Init ==
    /\ InitApp
    /\ probe = "none"
    /\ result = "none"

Next ==
    \/ open_image
    \/ on_zoom_change
    \/ reset_zoom
    \/ on_canvas_click
    \/ clear_records
    \/ toggle_floating_mode
    \/ close_floating_window
    \/ stop_when_stopped
    \/ start_screen_capture
    \/ manual_capture_color
    \/ export_records
    \/ clock_second

Spec == Init /\ [][Next]_vars

(***************************************************************************)
(* The ledger.                                                             *)
(***************************************************************************)

\* C1: the records of the ledger carry the sequence numbers 1..n in the order they
\* were appended in: the i-th record has sequence i, after any clicks, captures and
\* clears.
SequenceNumbers ==
    \A i \in 1..Len(color_records) : color_records[i].sequence = i

\* C1, its case: a capture and then a click have appended their records
SequenceNumbersCase ==
    /\ Len(color_records) = 2
    /\ color_records[1].image_file = "Screen Capture"
    /\ color_records[2].image_file = "test_image.gif"

\* C2: a clear empties the ledger when the confirmation is answered yes, and leaves
\* the ledger as it was when the answer is no or when the ledger is empty and nothing
\* is asked.
ClearOnlyOnConfirmation ==
    [][ev'.op = "clear" =>
         IF ev'.asked /\ ev'.response THEN color_records' = <<>>
         ELSE color_records' = color_records]_vars

\* C2, its case: the confirmation was declined on a ledger of two records
ClearDeclinedCase ==
    /\ ev.op = "clear"
    /\ ev.asked
    /\ ~ev.response
    /\ Len(color_records) = 2

\* C3: a click whose source coordinates are outside the image (x < 0, x >= width,
\* y < 0 or y >= height) reads no pixel and leaves the ledger and the count shown
\* as they were.
ClickOutsideRejected ==
    [][(/\ ev'.op = "click"
        /\ image # NoImage
        /\ \/ ev'.at[1] < 0
           \/ ev'.at[1] >= image.width
           \/ ev'.at[2] < 0
           \/ ev'.at[2] >= image.height)
       => (/\ ~ev'.decoded
           /\ color_records' = color_records
           /\ record_count_label' = record_count_label)]_vars

\* C3, its case: a click mapped to (100, 50) on the image of 100x100 and was rejected
\* with a record in the ledger
ClickOutsideCase ==
    /\ ev.op = "click"
    /\ ev.outcome = "rejected"
    /\ ev.at = <<100, 50>>
    /\ image.width = 100
    /\ image.height = 100
    /\ Len(color_records) = 1

\* The colour on_canvas_click computes for each pixel value of the RGBA file,
\* computed once
DecodedFilePixels ==
    [px \in {<<100, 150, 200, 128>>, <<0, 3, 18, 43>>} |-> DecodePixel("RGBA", px, px)]

\* The colour of the source image of a file at (x, y), as the program decodes a pixel
SourceColour(file, x, y) ==
    IF file = "test_image.gif" THEN QuarterColour(x, y)
    ELSE DecodedFilePixels[IF x < 100 THEN <<100, 150, 200, 128>> ELSE <<0, 3, 18, 43>>]

\* C5: the rgb of every record of an image click is the colour of the source image
\* of its file at the record's position, whatever the image shown holds, a reduced
\* preview of a large image included.
SampledFromSource ==
    \A i \in 1..Len(color_records) :
        color_records[i].image_file \in Files =>
            color_records[i].rgb =
                SourceColour(color_records[i].image_file, color_records[i].position[1],
                             color_records[i].position[2])

\* C5, its case: a click on the large image was recorded while its reduced preview
\* is shown
SampledUnderPreviewCase ==
    /\ ev.op = "click"
    /\ ev.outcome = "recorded"
    /\ image.file = "scan.png"
    /\ display_image_obj.width < image.width
    /\ color_records[Len(color_records)].position = ev.at

\* The value of an upper-case hexadecimal digit
UpperHexValue(ch) ==
    CASE ch = "0" -> 0 [] ch = "1" -> 1 [] ch = "2" -> 2 [] ch = "3" -> 3
      [] ch = "4" -> 4 [] ch = "5" -> 5 [] ch = "6" -> 6 [] ch = "7" -> 7
      [] ch = "8" -> 8 [] ch = "9" -> 9 [] ch = "A" -> 10 [] ch = "B" -> 11
      [] ch = "C" -> 12 [] ch = "D" -> 13 [] ch = "E" -> 14 [] ch = "F" -> 15
      [] OTHER -> -256

\* "#" and three numbers of two upper-case hexadecimal digits each
IsHexOf(hex, rgb) ==
    /\ Len(hex) = 7
    /\ hex[1] = "#"
    /\ \A k \in 1..3 :
         rgb[k] = 16 * UpperHexValue(hex[2 * k]) + UpperHexValue(hex[2 * k + 1])

\* C10: the hex of every record, of a click or of a capture, is "#" and the two
\* upper-case hexadecimal digits of r, of g and of b of the same record.
HexOfEveryRecord ==
    \A i \in 1..Len(color_records) : IsHexOf(color_records[i].hex, color_records[i].rgb)

\* C10, its case: the ledger holds a record of a click with hexadecimal letters and a
\* record of a capture with padded digits
HexOfEveryRecordCase ==
    /\ Len(color_records) = 2
    /\ color_records[1].image_file = "scan.png"
    /\ color_records[1].hex = <<"#", "B", "1", "C", "A", "E", "3">>
    /\ color_records[2].image_file = "Screen Capture"
    /\ color_records[2].hex = <<"#", "0", "0", "0", "3", "1", "2">>

(***************************************************************************)
(* The computations.                                                       *)
(***************************************************************************)

\* The quotient of n by d > 0, towards zero
TruncDiv(n, d) == IF n >= 0 THEN n \div d ELSE -((-n) \div d)

\* trunc((pointer / zoom) * (source / display)) in exact arithmetic; every zoom
\* factor of the combobox is a number of quarters
ExactMap(pointer, pct, source, display) ==
    TruncDiv(pointer * 4 * source, (pct \div 25) * display)

ExactMapOf(pointer, pct, reduced, source, display) ==
    IF reduced THEN ExactMap(pointer, pct, source, display)
    ELSE ExactMap(pointer, pct, 1, 1)

\* C4: the mapper gives trunc((pointer / zoomFactor) * (sourceDim / displayDim)) on
\* each axis, the second factor being 1 when there is no reduced display copy.
MapIsTruncation ==
    (probe.kind = "map" /\ result.update # "none") =>
        result.update =
            <<ExactMapOf(probe.canvas[1], probe.pct, probe.size.reduced,
                         probe.size.width, probe.size.dwidth),
              ExactMapOf(probe.canvas[2], probe.pct, probe.size.reduced,
                         probe.size.height, probe.size.dheight)>>

\* round(c * a/255 + 255 * (1 - a/255)) in exact arithmetic: the composite is a
\* number of 255ths, which is never half-way between two integers
ExactComposite(c, a) == (2 * (c * a + 255 * (255 - a)) + 255) \div 510

\* C6: each channel decoded from an RGBA pixel is the composite over white rounded
\* to the nearest integer.
CompositeIsRounded ==
    (probe.kind = "decode" /\ probe.mode = "RGBA" /\ result.update # "none") =>
        result.update =
            <<ExactComposite(probe.px[1], probe.px[4]),
              ExactComposite(probe.px[2], probe.px[4]),
              ExactComposite(probe.px[3], probe.px[4])>>

\* C7, as claimed: the RGBA pixel (100, 150, 200, 128) decodes to (178, 203, 228).
CompositeExample ==
    (probe.kind = "decode" /\ probe.mode = "RGBA" /\ probe.px = <<100, 150, 200, 128>>
     /\ result.update # "none") =>
        result.update = <<178, 203, 228>>

\* C7, amended: the RGBA pixel (100, 150, 200, 128) decodes to (177, 202, 227).
CompositeExampleAmended ==
    (probe.kind = "decode" /\ probe.mode = "RGBA" /\ probe.px = <<100, 150, 200, 128>>
     /\ result.update # "none") =>
        result.update = <<177, 202, 227>>

\* C7, its case: the pixel (100, 150, 200, 128) has been decoded
CompositeExampleCase ==
    /\ probe.kind = "decode"
    /\ probe.mode = "RGBA"
    /\ probe.px = <<100, 150, 200, 128>>
    /\ result.update # "none"

Max3(a, b, c) == IF a >= b /\ a >= c THEN a ELSE IF b >= c THEN b ELSE c

Min3(a, b, c) == IF a <= b /\ a <= c THEN a ELSE IF b <= c THEN b ELSE c

\* The hue of a colour of chroma c > 0 in c-ths of a sixth of a turn
ExactSextant(r, g, b, c) ==
    IF r = Max3(r, g, b) THEN g - b
    ELSE IF g = Max3(r, g, b) THEN 2 * c + (b - r)
    ELSE 4 * c + (r - g)

\* The standard hue in degrees, truncated
ExactHue(r, g, b, c) ==
    IF c = 0 THEN 0
    ELSE ((60 * (ExactSextant(r, g, b, c) + 6 * c)) % (360 * c)) \div c

\* The standard saturation and value in percent, truncated
ExactSaturation(mx, c) == IF mx = 0 THEN 0 ELSE (100 * c) \div mx

ExactValue(mx) == (100 * mx) \div 255

\* The standard RGB to HSV conversion in exact arithmetic, truncated to integers
ExactHsv(r, g, b) ==
    <<ExactHue(r, g, b, Max3(r, g, b) - Min3(r, g, b)),
      ExactSaturation(Max3(r, g, b), Max3(r, g, b) - Min3(r, g, b)),
      ExactValue(Max3(r, g, b))>>

HsvInRange(hsv) ==
    /\ 0 <= hsv[1] /\ hsv[1] < 360
    /\ 0 <= hsv[2] /\ hsv[2] <= 100
    /\ 0 <= hsv[3] /\ hsv[3] <= 100

\* C8: the HSV of a record is the standard conversion of its RGB truncated to
\* integers, with 0 <= h < 360 and 0 <= s, v <= 100, and the click path and the
\* capture path give the same HSV for the same RGB.
HsvIsTruncatedStandard ==
    probe.kind = "hsv" =>
        /\ result.update # "none" =>
               /\ result.update = ExactHsv(probe.rgb[1], probe.rgb[2], probe.rgb[3])
               /\ HsvInRange(result.update)
        /\ result.capture # "none" =>
               /\ result.capture = ExactHsv(probe.rgb[1], probe.rgb[2], probe.rgb[3])
               /\ HsvInRange(result.capture)
        /\ (result.update # "none" /\ result.capture # "none") =>
               result.update = result.capture

\* C9: an achromatic colour (k, k, k) has h = 0, s = 0 and v = floor(k * 100 / 255).
AchromaticHsv ==
    (probe.kind = "hsv" /\ probe.rgb[1] = probe.rgb[2] /\ probe.rgb[2] = probe.rgb[3]
     /\ result.update # "none") =>
        result.update = <<0, 0, (probe.rgb[1] * 100) \div 255>>

\* C9, its case: a grey whose value in percent is not an integer has been converted
AchromaticHsvCase ==
    /\ probe.kind = "hsv"
    /\ probe.rgb = <<129, 129, 129>>
    /\ result.update # "none"
    /\ result.update[3] = 50

(***************************************************************************)
(* Errors of the decoding, and the screen sampler.                         *)
(***************************************************************************)

\* C11: a click on a pixel inside an image whose mode is none of RGB, RGBA, L and P
\* and cannot be converted to RGB shows an error, records nothing and leaves the
\* ledger and the count shown as they were.
DecodeFailureSurfaced ==
    [][(/\ ev'.op = "click"
        /\ image # NoImage
        /\ ev'.outcome # "no image"
        /\ 0 <= ev'.at[1] /\ ev'.at[1] < image.width
        /\ 0 <= ev'.at[2] /\ ev'.at[2] < image.height
        /\ image.mode \notin {"RGB", "RGBA", "L", "P"}
        /\ ~CanConvert(image.mode))
       => /\ ev'.outcome = "error"
          /\ ev'.message = "showerror"
          /\ color_records' = color_records
          /\ record_count_label' = record_count_label]_vars

\* C11, its case: a click inside the 16-bit image was answered with the error, with a
\* record in the ledger
DecodeFailureCase ==
    /\ ev.op = "click"
    /\ ev.outcome = "error"
    /\ image.file = "depth.tif"
    /\ image.mode = "I;16"
    /\ Len(color_records) = 1

\* C12: a call of start_screen_capture by the timer leaves the records and the count
\* shown as they were, and the records or the count change only in a manual capture,
\* a click on the image or a clear.
TickLeavesLedger ==
    [][/\ ev'.op = "tick" =>
            (color_records' = color_records /\ record_count_label' = record_count_label)
       /\ (color_records' # color_records \/ record_count_label' # record_count_label)
            => ev'.op \in {"capture", "click", "clear"}]_vars

\* C12, its case: a tick has shown a colour while the ledger holds a record
TickLeavesLedgerCase ==
    /\ ev.op = "tick"
    /\ ev.outcome = "published"
    /\ floating_display.rgb = <<0, 3, 18>>
    /\ Len(color_records) = 1

\* C13: a stop leaves no call of start_screen_capture pending, and while the sampler
\* is stopped no call of start_screen_capture grabs the screen or shows a colour.
StopCancelsTick ==
    [][/\ ev'.op = "stop" => (after_pending' = {} /\ floating_timer' = 0)
       /\ (~is_floating_mode /\ ev'.op = "tick")
            => (ev'.outcome = "stopped" /\ floating_display' = floating_display
                /\ after_pending' \subseteq after_pending)]_vars

\* C13, its case: the running sampler was stopped, its timer pending
StopCancelsTickCase ==
    /\ ev.op = "stop"
    /\ ev.running
    /\ after_pending = {}

\* C14: a stop leaves the sampler idle (no flag, no timer, no window) and the ledger
\* as it was, and a stop of an idle sampler changes nothing of the sampler.
StopIdempotent ==
    [][ev'.op = "stop" =>
         /\ ~is_floating_mode' /\ floating_timer' = 0 /\ ~floating_window'
         /\ color_records' = color_records /\ record_count_label' = record_count_label
         /\ (~is_floating_mode /\ floating_timer = 0 /\ ~floating_window)
              => UNCHANGED floatVars]_vars

\* C14, its case: an idle sampler was stopped, with a record in the ledger
StopIdempotentCase ==
    /\ ev.op = "stop"
    /\ ~ev.running
    /\ Len(color_records) = 1

\* C15: a tick whose grab raises or whose pointer is off the screenshot shows nothing
\* new, and the sampler stays running with the next call scheduled.
TickFailureKeepsRunning ==
    [][(ev'.op = "tick" /\ ev'.outcome \in {"grab failed", "off screen"}) =>
         /\ floating_display' = floating_display
         /\ is_floating_mode' /\ floating_window'
         /\ floating_timer' # 0
         /\ floating_timer' \in after_pending']_vars

\* C15, its case: a grab failed after a colour was shown, and the next call is pending
TickFailureKeepsRunningCase ==
    /\ ev.op = "tick"
    /\ ev.outcome = "grab failed"
    /\ floating_display.rgb = <<0, 3, 18>>
    /\ is_floating_mode
    /\ floating_timer \in after_pending

\* C16: a manual capture with the pointer on the screenshot appends one record, with
\* the next sequence number, the pointer as position, the rgb of the pixel with the
\* HSV and hex of that rgb and the label 'Screen Capture', and leaves the sampler as
\* it was.
CaptureAppendsOne ==
    [][(ev'.op = "capture" /\ ev'.outcome = "recorded") =>
         /\ Len(color_records') = Len(color_records) + 1
         /\ SubSeq(color_records', 1, Len(color_records)) = color_records
         /\ color_records'[Len(color_records')].sequence = Len(color_records) + 1
         /\ color_records'[Len(color_records')].position = ev'.pointer
         /\ color_records'[Len(color_records')].rgb =
                <<ev'.pixel[1], ev'.pixel[2], ev'.pixel[3]>>
         /\ color_records'[Len(color_records')].hsv = CapturedColours[ev'.pixel].hsv
         /\ IsHexOf(color_records'[Len(color_records')].hex,
                    color_records'[Len(color_records')].rgb)
         /\ color_records'[Len(color_records')].image_file = "Screen Capture"
         /\ record_count_label' = Len(color_records')
         /\ UNCHANGED floatVars]_vars

\* C16, its case: a capture was recorded after a click, while a tick is pending
CaptureAppendsOneCase ==
    /\ ev.op = "capture"
    /\ ev.outcome = "recorded"
    /\ Len(color_records) = 2
    /\ color_records[1].image_file = "test_image.gif"
    /\ color_records[2].position = <<12, 34>>
    /\ after_pending # {}

(***************************************************************************)
(* The export: what a reader of the files finds in them.                   *)
(***************************************************************************)

\* The number a digit stands for
DigitValue(ch) == CHOOSE d \in 0..9 : DecDigits[d + 1] = ch

RECURSIVE NatValue(_)
NatValue(text) ==
    IF text = <<>> THEN 0
    ELSE NatValue(SubSeq(text, 1, Len(text) - 1)) * 10 + DigitValue(text[Len(text)])

\* The integer a decimal text stands for
IntValue(text) == IF text[1] = "-" THEN -NatValue(Tail(text)) ELSE NatValue(text)

\* The second a timestamp text stands for
TimeValue(text) == NatValue(Tail(text))

\* sequence, timestamp, source label, x, y, r, g, b, hex, h, s, v of the records of
\* the ledger
RowsOfLedger(records) ==
    [i \in 1..Len(records) |->
        <<records[i].sequence, records[i].timestamp, records[i].image_file,
          records[i].position[1], records[i].position[2],
          records[i].rgb[1], records[i].rgb[2], records[i].rgb[3],
          records[i].hex,
          records[i].hsv[1], records[i].hsv[2], records[i].hsv[3]>>]

\* The same of the records of a JSON document
RowsOfJson(doc) ==
    [i \in 1..Len(doc.color_records) |->
        <<doc.color_records[i].sequence, TimeValue(doc.color_records[i].timestamp),
          doc.color_records[i].image_file,
          doc.color_records[i].position.x, doc.color_records[i].position.y,
          doc.color_records[i].rgb.r, doc.color_records[i].rgb.g,
          doc.color_records[i].rgb.b,
          doc.color_records[i].hex,
          doc.color_records[i].hsv.h, doc.color_records[i].hsv.s,
          doc.color_records[i].hsv.v>>]

\* of the rows of a CSV file below its row of column names
RowsOfCsv(rows) ==
    [i \in 1..(Len(rows) - 1) |->
        <<IntValue(rows[i + 1][1]), TimeValue(rows[i + 1][2]), rows[i + 1][3][1],
          IntValue(rows[i + 1][4]), IntValue(rows[i + 1][5]),
          IntValue(rows[i + 1][6]), IntValue(rows[i + 1][7]), IntValue(rows[i + 1][8]),
          rows[i + 1][9],
          IntValue(rows[i + 1][10]), IntValue(rows[i + 1][11]),
          IntValue(rows[i + 1][12])>>]

\* of a ColorRecord element
RowOfXml(elem) ==
    <<IntValue(elem.attrib[1][2]), TimeValue(elem.children[1].text),
      elem.children[2].text[1],
      IntValue(elem.children[3].children[1].text),
      IntValue(elem.children[3].children[2].text),
      IntValue(elem.children[4].children[1].text),
      IntValue(elem.children[4].children[2].text),
      IntValue(elem.children[4].children[3].text),
      elem.children[4].children[4].text,
      IntValue(elem.children[5].children[1].text),
      IntValue(elem.children[5].children[2].text),
      IntValue(elem.children[5].children[3].text)>>

\* of the ColorRecord elements of an XML tree
RowsOfXml(root) ==
    [i \in 1..Len(root.children[2].children) |-> RowOfXml(root.children[2].children[i])]

\* of the nine lines of a record in a text file, the first of them at line first
RowOfTxt(lines, first) ==
    <<IntValue(lines[first][2]), TimeValue(lines[first + 1][2]), lines[first + 2][2][1],
      IntValue(lines[first + 3][2]), IntValue(lines[first + 3][4]),
      IntValue(lines[first + 4][2]), IntValue(lines[first + 4][4]),
      IntValue(lines[first + 4][6]),
      lines[first + 6][2],
      IntValue(lines[first + 5][2]), IntValue(lines[first + 5][4]),
      IntValue(lines[first + 5][6])>>

\* of the records of a text file below its six lines of heading
RowsOfTxt(lines) ==
    [i \in 1..((Len(lines) - 6) \div 9) |-> RowOfTxt(lines, 7 + 9 * (i - 1))]

RowsOfFile(format, file) ==
    CASE format = "json" -> RowsOfJson(file)
      [] format = "csv" -> RowsOfCsv(file)
      [] format = "xml" -> RowsOfXml(file)
      [] format = "txt" -> RowsOfTxt(file)

\* C17: an export, written, failed or cancelled, of any format, leaves the records
\* and the count shown as they were, and a failed write is shown as an error.
ExportReadOnly ==
    [][ev'.op = "export" =>
         /\ color_records' = color_records
         /\ record_count_label' = record_count_label
         /\ ev'.outcome = "failed" => ev'.message = "showerror"]_vars

\* C17, its case: the write of an XML file failed with two records in the ledger
ExportReadOnlyCase ==
    /\ ev.op = "export"
    /\ ev.outcome = "failed"
    /\ ev.format = "xml"
    /\ Len(color_records) = 2

\* C18: the file written in any of the four formats holds the records of the ledger
\* in their order, each with the sequence, timestamp, source label, x, y, r, g, b,
\* hex, h, s and v of the ledger; the four formats thus hold the same, and the number
\* of a record in the text file is its sequence.
ExportsAgree ==
    (ev.op = "export" /\ ev.outcome = "written") =>
        RowsOfFile(ev.format, ev.file) = RowsOfLedger(color_records)

\* C18, its case: a text file was written of a click and a later capture
ExportsAgreeCase ==
    /\ ev.op = "export"
    /\ ev.outcome = "written"
    /\ ev.format = "txt"
    /\ Len(color_records) = 2
    /\ color_records[1].image_file = "scan.png"
    /\ color_records[1].timestamp = 0
    /\ color_records[2].image_file = "Screen Capture"
    /\ color_records[2].timestamp = 1

\* The heading of a file names the export time, the number of records and the format
HeaderOfJson(doc, clock, count) ==
    /\ TimeValue(doc.export_info.timestamp) = clock
    /\ doc.export_info.total_records = count
    /\ doc.export_info.format = "JSON"

HeaderOfXml(root, clock, count) ==
    /\ \E i \in 1..Len(root.children[1].children) :
         /\ root.children[1].children[i].tag = "Timestamp"
         /\ root.children[1].children[i].text = StrfTime(clock)
    /\ \E i \in 1..Len(root.children[1].children) :
         /\ root.children[1].children[i].tag = "TotalRecords"
         /\ root.children[1].children[i].text = Str(count)
    /\ \E i \in 1..Len(root.children[1].children) :
         /\ root.children[1].children[i].tag = "Format"
         /\ root.children[1].children[i].text = Text("XML")

\* In a CSV file the heading is what stands above the rows of the records
HeaderOfCsv(rows, clock, count) ==
    /\ \E i \in 1..(Len(rows) - count), j \in 1..12 : rows[i][j] = StrfTime(clock)
    /\ \E i \in 1..(Len(rows) - count), j \in 1..12 : rows[i][j] = Str(count)
    /\ \E i \in 1..(Len(rows) - count), j \in 1..12 : rows[i][j] = Text("CSV")

\* In a text file the heading is the lines above the lines of the records
HeaderOfTxt(lines, clock, count) ==
    /\ \E i \in 1..(Len(lines) - 9 * count), j \in 1..2 :
         j <= Len(lines[i]) /\ lines[i][j] = StrfTime(clock)
    /\ \E i \in 1..(Len(lines) - 9 * count), j \in 1..2 :
         j <= Len(lines[i]) /\ lines[i][j] = Str(count)
    /\ \E i \in 1..(Len(lines) - 9 * count), j \in 1..2 :
         j <= Len(lines[i]) /\ lines[i][j] \in {Text("TXT"), Text("Text")}

\* C19: the file written in any of the four formats has a heading with the time of
\* the export, the number of records of the ledger and a tag naming the format.
HeaderInEveryFormat ==
    (ev.op = "export" /\ ev.outcome = "written") =>
        CASE ev.format = "json" -> HeaderOfJson(ev.file, now, Len(color_records))
          [] ev.format = "csv" -> HeaderOfCsv(ev.file, now, Len(color_records))
          [] ev.format = "xml" -> HeaderOfXml(ev.file, now, Len(color_records))
          [] ev.format = "txt" -> HeaderOfTxt(ev.file, now, Len(color_records))

\* C20: the record of a click has a position inside the image loaded when the click
\* was handled and the file name of that image; every record of a click stays
\* inside the image of its file when other images are loaded.
ClickWithinImage ==
    [][(ev'.op = "click" /\ ev'.outcome = "recorded") =>
         /\ 0 <= color_records'[Len(color_records')].position[1]
         /\ color_records'[Len(color_records')].position[1] < image.width
         /\ 0 <= color_records'[Len(color_records')].position[2]
         /\ color_records'[Len(color_records')].position[2] < image.height
         /\ color_records'[Len(color_records')].image_file = image.file
         /\ \A i \in 1..Len(color_records') :
              color_records'[i].image_file # "Screen Capture" =>
                  /\ color_records'[i].image_file \in Files
                  /\ 0 <= color_records'[i].position[1]
                  /\ color_records'[i].position[1] < FileSize(color_records'[i].image_file)[1]
                  /\ 0 <= color_records'[i].position[2]
                  /\ color_records'[i].position[2] < FileSize(color_records'[i].image_file)[2]
      ]_vars

\* C20, its case: a click on the small image was recorded after a click on the large
\* image at a position the small image does not have
ClickWithinImageCase ==
    /\ ev.op = "click"
    /\ ev.outcome = "recorded"
    /\ Len(color_records) = 2
    /\ color_records[1].image_file = "scan.png"
    /\ color_records[1].position[1] >= 100
    /\ color_records[2].image_file = "test_image.gif"
    /\ image.width = 100

(***************************************************************************)
(* C21: the ledger is append-only and its records never change              *)
(***************************************************************************)

\* C21: every step of the program (click, capture, tick, zoom change, image load,
\* export, start and stop of the sampler) leaves each record of the ledger in its
\* place with all its fields (sequence, timestamp, image_file, position, rgb, hsv,
\* hex) as they were; the only step after which a record is gone is a clear the user
\* confirmed, and it leaves no record at all.
LedgerAppendOnly ==
    [][\/ /\ Len(color_records') >= Len(color_records)
          /\ \A i \in 1..Len(color_records) : color_records'[i] = color_records[i]
       \/ /\ ev'.op = "clear"
          /\ ev'.asked
          /\ ev'.response
          /\ color_records' = <<>>]_vars

\* A record of a click taken at second 0 is still the first record, with its fields,
\* after a later capture of the sampler at second 1 was appended
LedgerAppendOnlyCase ==
    /\ Len(color_records) = 2
    /\ ev.op = "capture"
    /\ color_records[1].image_file = "scan.png"
    /\ color_records[1].timestamp = 0
    /\ color_records[1].sequence = 1
    /\ color_records[2].timestamp = 1

(***************************************************************************)
(* C22: a load replaces the image, its display copy, the file name and the  *)
(* zoom factor together, or none of them                                    *)
(***************************************************************************)

\* The image, the image shown and the name given to new records are of one file
OfOneFile(img, disp, name, file) ==
    /\ img # NoImage
    /\ disp # NoImage
    /\ img.file = file
    /\ disp.file = file
    /\ name = file

\* C22: after open_image, whether it loaded the file or failed at the file dialog, at
\* Image.open, at the resize of the preview or at ImageTk.PhotoImage, either self.image,
\* self.display_image_obj, current_image_file and zoom_factor are all as they were
\* before, or the two images and the file name are those of one file and the zoom
\* factor is 1.0; and in every state a click is handled in, the two images and the
\* file name are of one file, or no image has been loaded.
LoadReplacesWholesale ==
    /\ [][ev'.op = "open" =>
             \/ UNCHANGED imageVars
             \/ /\ zoom_factor' = 100
                /\ \E file \in Files :
                      OfOneFile(image', display_image_obj', current_image_file', file)]_vars
    /\ [](\/ image = NoImage /\ display_image_obj = NoImage /\ current_image_file = "unset"
          \/ \E file \in Files :
                OfOneFile(image, display_image_obj, current_image_file, file))

\* depth.tif was loaded after a click on scan.png, and ImageTk.PhotoImage raised: the
\* images and the file name are those of depth.tif, the zoom factor is 1.0
LoadReplacesWholesaleCase ==
    /\ ev.op = "open"
    /\ ev.failed = "PhotoImage"
    /\ image.file = "depth.tif"
    /\ display_image_obj.file = "depth.tif"
    /\ current_image_file = "depth.tif"
    /\ zoom_factor = 100
    /\ color_records # <<>>
    /\ color_records[1].image_file = "scan.png"

(***************************************************************************)
(* C23: a click is sampled only when it is on the image drawn on the canvas *)
(***************************************************************************)

\* The canvas position is on the image display_image drew
OnRenderedImage(canvas, size, pct) ==
    /\ 0 <= canvas[1]
    /\ canvas[1] < RenderedSize(size.dwidth, pct)
    /\ 0 <= canvas[2]
    /\ canvas[2] < RenderedSize(size.dheight, pct)

\* C23: a click whose source coordinates pass the bounds test of on_canvas_click, the
\* test after which the pixel is read and the record appended, is at a canvas
\* position with 0 <= x < int(display width * zoom factor) and
\* 0 <= y < int(display height * zoom factor); a click at a negative canvas
\* coordinate, or past the edge of the drawn image, gives no record.
ClickOnRenderedImageOnly ==
    (/\ probe.kind = "map"
     /\ result.update # "none"
     /\ InBounds(result.update[1], result.update[2], probe.size.width, probe.size.height))
        => OnRenderedImage(probe.canvas, probe.size, probe.pct)

(***************************************************************************)
(* C24: one call of start_screen_capture is pending while the sampler runs, *)
(* and none while it does not                                               *)
(***************************************************************************)

\* C24: in every state the event loop takes the next event in, after any toggles,
\* starts (those that raise part-way too), stops, closes of the floating window and
\* calls of start_screen_capture, a call of start_screen_capture is pending exactly
\* when is_floating_mode is set and the floating window exists, and at most one call
\* is pending.
OneTickWhileFloating ==
    /\ (after_pending # {}) <=> (is_floating_mode /\ floating_window)
    /\ Cardinality(after_pending) <= 1

\* The sampler runs after a call of start_screen_capture by the timer: the call
\* scheduled by the start has run, and the one it scheduled is the only one pending
OneTickWhileFloatingCase ==
    /\ ev.op = "tick"
    /\ ev.outcome = "published"
    /\ is_floating_mode
    /\ floating_window
    /\ floating_timer = 2
    /\ after_pending = {2}

====
